---------------------------- MODULE Spec2Model ----------------------------
(***************************************************************************)
(* A model of rpn.js: the operator table (OperateTable), the infix to      *)
(* postfix converter rpn.Generate, the postfix evaluator rpn and the       *)
(* registration function rpn.SetOperate.                                   *)
(*                                                                         *)
(* A JavaScript string is a sequence of one-character strings, so that     *)
(* indexOf, substring, split and the number regex are computed character   *)
(* by character.  A JavaScript number is an integer of the model when it   *)
(* is one of magnitude at most MaxNum; every other value (a fraction, NaN, *)
(* an infinity, a larger magnitude, a string operand) is the value Other.  *)
(***************************************************************************)
EXTENDS Integers, Sequences, FiniteSets, TLC

VARIABLES
    OperateTable,   \* the operator table, in property insertion order
    pc,             \* "idle" | "Generate" | "GenerateEnd" | "rpn" | "rpnEnd" | "done"
    call,           \* the public function last called and its arguments
    nested,         \* TRUE while rpn( rpn.Generate(e) ) is being evaluated
    exp,            \* Generate: the rest of the expression
    Polish,         \* Generate: the output list
    ope_stack,      \* Generate: one operator stack per bracket depth (index depth+1)
    depth,          \* Generate: the bracket depth
    unary,          \* Generate: the sign flag
    g,              \* Generate: the number text matched by the last loop pass, <<>> for null
    key,            \* Generate: the table key matched by the last operator scan
    op,             \* Generate: the operator of the last operator scan, after the sign rewrite
    rpn_stack,      \* rpn: the tokens not yet consumed
    calc_stack,     \* rpn: the value stack
    ret             \* what the call returned or threw

vars == <<OperateTable, pc, call, nested, exp, Polish, ope_stack, depth, unary,
          g, key, op, rpn_stack, calc_stack, ret>>

genVars == <<exp, Polish, ope_stack, depth, unary, g, key, op>>
calcVars == <<rpn_stack, calc_stack>>

---------------------------------------------------------------------------
(* Strings *)

\* String.prototype.indexOf(sub) === 0
StartsWith(s, pre) ==
    /\ Len(pre) <= Len(s)
    /\ \A i \in 1..Len(pre) : s[i] = pre[i]

\* String.prototype.substring(n)
Drop(s, n) == IF n >= Len(s) THEN <<>> ELSE SubSeq(s, n + 1, Len(s))

Take(s, n) == IF n <= 0 THEN <<>> ELSE SubSeq(s, 1, IF n > Len(s) THEN Len(s) ELSE n)

\* String.prototype.indexOf(sub): the 1-based place of the first occurrence, 0 for -1
IndexOf(s, sub) ==
    LET hits == {i \in 1..(Len(s) + 1) : StartsWith(Drop(s, i - 1), sub)}
    IN  IF hits = {} THEN 0 ELSE CHOOSE i \in hits : \A j \in hits : i <= j

IsSpace(c) == c \in {" ", ","}

Digits == <<"0", "1", "2", "3", "4", "5", "6", "7", "8", "9">>
LowerHex == <<"a", "b", "c", "d", "e", "f">>
UpperHex == <<"A", "B", "C", "D", "E", "F">>

IsDigit(c) == \E i \in 1..10 : Digits[i] = c
IsHexDigit(c) ==
    \/ IsDigit(c)
    \/ \E i \in 1..6 : LowerHex[i] = c \/ UpperHex[i] = c

DigitVal(c) == (CHOOSE i \in 1..10 : Digits[i] = c) - 1
HexVal(c) ==
    IF IsDigit(c) THEN DigitVal(c)
    ELSE 9 + (CHOOSE i \in 1..6 : LowerHex[i] = c \/ UpperHex[i] = c)

\* the length of the run of decimal digits of s that starts at place i: [0-9]*
RECURSIVE DigitRun(_, _)
DigitRun(s, i) ==
    IF i <= Len(s) /\ IsDigit(s[i]) THEN 1 + DigitRun(s, i + 1) ELSE 0

\* the length of the run of hexadecimal digits of s that starts at place i: [0-9a-f]* under /i
RECURSIVE HexRun(_, _)
HexRun(s, i) ==
    IF i <= Len(s) /\ IsHexDigit(s[i]) THEN 1 + HexRun(s, i + 1) ELSE 0

---------------------------------------------------------------------------
(* Values *)

MaxNum == 1000000000

\* a number of the model: the integer n, or Other outside the modelled range
Norm(n) == IF n > MaxNum \/ n < -MaxNum THEN [k |-> "other", v |-> 0] ELSE [k |-> "int", v |-> n]

Int_(n) == [k |-> "int", v |-> n]
Other == [k |-> "other", v |-> 0]
Undefined == [k |-> "undefined", v |-> 0]

\* a * b as a value, Other when the product leaves the modelled range
Times(a, b) ==
    LET abs(x) == IF x < 0 THEN -x ELSE x
    IN  IF a = 0 \/ b = 0 THEN Int_(0)
        ELSE IF abs(a) > MaxNum \div abs(b) THEN Other
        ELSE Int_(a * b)

Plus(a, b) ==
    IF (b > 0 /\ a > MaxNum - b) \/ (b < 0 /\ a < (-MaxNum) - b) THEN Other
    ELSE Norm(a + b)

RECURSIVE Power(_, _)
Power(a, b) ==
    IF b = 0 THEN Int_(1)
    ELSE IF b < 0 THEN (IF a = 1 THEN Int_(1)
                        ELSE IF a = -1 THEN Int_(IF b % 2 = 0 THEN 1 ELSE -1)
                        ELSE Other)
    ELSE IF a \in {0, 1} THEN Int_(a)
    ELSE IF a = -1 THEN Int_(IF b % 2 = 0 THEN 1 ELSE -1)
    ELSE IF b > 31 THEN Other
    ELSE LET r == Power(a, b - 1)
         IN  IF r.k = "int" THEN Times(r.v, a) ELSE Other

\* the bitwise operators on two's complement integers
RECURSIVE BitAnd(_, _)
BitAnd(a, b) ==
    IF a = 0 \/ b = 0 THEN 0
    ELSE IF a = -1 THEN b
    ELSE IF b = -1 THEN a
    ELSE (a % 2) * (b % 2) + 2 * BitAnd(a \div 2, b \div 2)

RECURSIVE BitOr(_, _)
BitOr(a, b) ==
    IF a = 0 THEN b
    ELSE IF b = 0 THEN a
    ELSE IF a = -1 \/ b = -1 THEN -1
    ELSE (IF a % 2 = 1 \/ b % 2 = 1 THEN 1 ELSE 0) + 2 * BitOr(a \div 2, b \div 2)

RECURSIVE BitXor(_, _)
BitXor(a, b) ==
    IF a = 0 THEN b
    ELSE IF b = 0 THEN a
    ELSE IF a = -1 THEN (-b) - 1
    ELSE IF b = -1 THEN (-a) - 1
    ELSE (IF a % 2 = b % 2 THEN 0 ELSE 1) + 2 * BitXor(a \div 2, b \div 2)

\* x doubled n times in 32-bit two's complement
RECURSIVE ShiftLeft(_, _)
ShiftLeft(x, n) ==
    IF n = 0 THEN x
    ELSE LET half == 1073741824
             d == IF x >= half THEN ((x - half) + (x - half)) - 2147483647 - 1
                  ELSE IF x < -half THEN ((x + half) + (x + half)) + 2147483647 + 1
                  ELSE x + x
         IN  ShiftLeft(d, n - 1)

RECURSIVE ShiftRight(_, _)
ShiftRight(x, n) == IF n = 0 THEN x ELSE ShiftRight(x \div 2, n - 1)

\* the fn of an OperateTable entry, named by id, applied to the list args
Apply(id, args) ==
    IF \E i \in 1..Len(args) : args[i].k # "int" THEN
        (IF id \in {"nop", "void"} THEN Undefined ELSE Other)
    ELSE LET L == IF Len(args) >= 1 THEN args[1].v ELSE 0
             R == IF Len(args) >= 2 THEN args[2].v ELSE 0
             one == Len(args) >= 1
             two == Len(args) >= 2
             abs(x) == IF x < 0 THEN -x ELSE x
         IN  CASE id \in {"nop", "void"} -> Undefined
               [] id = "pos" -> IF one THEN Int_(L) ELSE Undefined
               [] id = "neg" -> IF one THEN Int_(-L) ELSE Other
               [] id = "not" -> IF one THEN Int_((-L) - 1) ELSE Int_(-1)
               [] id = "pow" -> IF two THEN Power(L, R) ELSE Other
               [] id = "mul" -> IF two THEN Times(L, R) ELSE Other
               [] id = "div" -> IF two /\ R # 0 /\ abs(L) % abs(R) = 0
                                THEN Int_((IF (L < 0) = (R < 0) THEN 1 ELSE -1) * (abs(L) \div abs(R)))
                                ELSE Other
               [] id = "mod" -> IF two /\ R # 0
                                THEN Int_((IF L < 0 THEN -1 ELSE 1) * (abs(L) % abs(R)))
                                ELSE Other
               [] id = "add" -> IF two THEN Plus(L, R) ELSE Other
               [] id = "sub" -> IF two THEN Plus(L, -R) ELSE Other
               [] id = "shl" -> IF two THEN Norm(ShiftLeft(L, R % 32)) ELSE Int_(L)
               [] id = "shr" -> IF two THEN Int_(ShiftRight(L, R % 32)) ELSE Int_(L)
               [] id = "and" -> IF two THEN Int_(BitAnd(L, R)) ELSE Int_(0)
               [] id = "xor" -> IF two THEN Int_(BitXor(L, R)) ELSE Int_(L)
               [] id = "or"  -> IF two THEN Int_(BitOr(L, R)) ELSE Int_(L)
               [] id = "inc" -> IF one THEN Plus(L, 1) ELSE Other
               [] id = "dbl" -> IF one THEN Times(L, 2) ELSE Other
               [] OTHER -> Other

---------------------------------------------------------------------------
(* The operator table *)

Entry(name, order, type, arity, assoc, fn) ==
    [key |-> name, Order |-> order, Type |-> type, Arity |-> arity,
     AssocLow |-> assoc, fn |-> fn]

BuiltinTable == <<
    Entry(<<"(">>, 20, "state", 0, "", "nop"),
    Entry(<<")">>, 20, "state", 0, "", "nop"),
    Entry(<<"#">>, 16, "op", 1, "R", "pos"),
    Entry(<<"_">>, 16, "op", 1, "R", "neg"),
    Entry(<<"~">>, 16, "op", 1, "R", "not"),
    Entry(<<"*", "*">>, 15, "op", 2, "R", "pow"),
    Entry(<<"*">>, 14, "op", 2, "L", "mul"),
    Entry(<<"/">>, 14, "op", 2, "L", "div"),
    Entry(<<"%">>, 14, "op", 2, "L", "mod"),
    Entry(<<"+">>, 13, "op", 2, "L", "add"),
    Entry(<<"-">>, 13, "op", 2, "L", "sub"),
    Entry(<<"<", "<">>, 12, "op", 2, "L", "shl"),
    Entry(<<">", ">">>, 12, "op", 2, "L", "shr"),
    Entry(<<"&">>, 9, "op", 2, "L", "and"),
    Entry(<<"^">>, 8, "op", 2, "L", "xor"),
    Entry(<<"|">>, 7, "op", 2, "L", "or") >>

\* OperateTable[key] != null
HasKey(tab, name) == \E i \in 1..Len(tab) : tab[i].key = name

\* OperateTable[key]
Get(tab, name) == tab[CHOOSE i \in 1..Len(tab) : tab[i].key = name]

\* OperateTable[key] = e: an existing property keeps its place, a new one is last
Put(tab, e) ==
    IF HasKey(tab, e.key)
    THEN [i \in 1..Len(tab) |-> IF tab[i].key = e.key THEN e ELSE tab[i]]
    ELSE Append(tab, e)


---------------------------------------------------------------------------
(* Number literals *)

\* a number of the Polish list or of a postfix chunk: the integer part n and the
\* digits after the point, without trailing zeros (<<>> for an integer)
Num(n, frac) == [n |-> n, frac |-> frac]

RECURSIVE DecVal(_)
DecVal(s) == IF s = <<>> THEN 0 ELSE 10 * DecVal(Take(s, Len(s) - 1)) + DigitVal(s[Len(s)])

RECURSIVE HexDigitsVal(_)
HexDigitsVal(s) ==
    IF s = <<>> THEN 0 ELSE 16 * HexDigitsVal(Take(s, Len(s) - 1)) + HexVal(s[Len(s)])

RECURSIVE StripZeros(_)
StripZeros(s) ==
    IF s # <<>> /\ s[Len(s)] = "0" THEN StripZeros(Take(s, Len(s) - 1)) ELSE s

\* exp.match(/(^0x[0-9a-f]+)|(^[0-9]+(\.[0-9]+)?)/i): the length of g[0], 0 for null
MatchNumber(s) ==
    IF Len(s) >= 3 /\ s[1] = "0" /\ s[2] \in {"x", "X"} /\ IsHexDigit(s[3])
    THEN 2 + HexRun(s, 3)
    ELSE IF Len(s) >= 1 /\ IsDigit(s[1])
    THEN LET d == DigitRun(s, 1)
         IN  IF Len(s) >= d + 2 /\ s[d + 1] = "." /\ IsDigit(s[d + 2])
             THEN d + 1 + DigitRun(s, d + 2)
             ELSE d
    ELSE 0

\* parseInt(s, 16) of a text that starts with a digit: the prefix 0x or 0X is
\* skipped, then the run of hexadecimal digits is read
ParseInt16(s) ==
    LET body == IF Len(s) >= 2 /\ s[1] = "0" /\ s[2] \in {"x", "X"} THEN Drop(s, 2) ELSE s
    IN  Num(HexDigitsVal(Take(body, HexRun(body, 1))), <<>>)

\* parseFloat(s) of a text that starts with a digit: the run of digits, then a
\* point and digits when they follow ("0X0F" reads as 0)
ParseFloat(s) ==
    LET d == DigitRun(s, 1)
        f == IF Len(s) >= d + 1 /\ s[d + 1] = "." THEN DigitRun(s, d + 2) ELSE 0
    IN  Num(DecVal(Take(s, d)), StripZeros(SubSeq(s, d + 2, d + 1 + f)))

\* g[0].indexOf("0x") === 0 ? parseInt(g[0],16) : parseFloat(g[0])
LiteralValue(g0) ==
    IF StartsWith(g0, <<"0", "x">>) THEN ParseInt16(g0) ELSE ParseFloat(g0)

\* Number.prototype.toString of a number that is not negative
RECURSIVE NatToString(_)
NatToString(n) ==
    IF n < 10 THEN <<Digits[n + 1]>> ELSE Append(NatToString(n \div 10), Digits[(n % 10) + 1])

NumToString(x) ==
    IF x.frac = <<>> THEN NatToString(x.n) ELSE NatToString(x.n) \o <<".">> \o x.frac

\* an element of Polish: a number, or an operator key
PNum(x) == [t |-> "num", num |-> x, key |-> <<>>]
POp(k) == [t |-> "op", num |-> Num(0, <<>>), key |-> k]

\* Polish.join(" ")
RECURSIVE Join(_)
Join(P) ==
    IF P = <<>> THEN <<>>
    ELSE LET one == IF P[1].t = "num" THEN NumToString(P[1].num) ELSE P[1].key
         IN  IF Len(P) = 1 THEN one ELSE one \o <<" ">> \o Join(Tail(P))


---------------------------------------------------------------------------
(* Calls and results *)

NoArg == [type |-> "undefined", s |-> <<>>, n |-> 0, id |-> ""]
StringArg(s) == [type |-> "string", s |-> s, n |-> 0, id |-> ""]
NumberArg(n) == [type |-> "number", s |-> <<>>, n |-> n, id |-> ""]
FunctionArg(id) == [type |-> "function", s |-> <<>>, n |-> 0, id |-> id]
NullArg == [type |-> "object", s |-> <<>>, n |-> 0, id |-> ""]

\* the function called, its arguments, and for rpn(rpn.Generate(e)) the text e
Call(f, a1, a2, a3, of) == [f |-> f, a1 |-> a1, a2 |-> a2, a3 |-> a3, of |-> of]

NoRet == [k |-> "none", s |-> <<>>, v |-> Undefined, err |-> ""]
RetString(s) == [k |-> "string", s |-> s, v |-> Undefined, err |-> ""]
RetNull == [k |-> "null", s |-> <<>>, v |-> Undefined, err |-> ""]
RetValue(v) == [k |-> "value", s |-> <<>>, v |-> v, err |-> ""]
RetHandle == [k |-> "rpn", s |-> <<>>, v |-> Undefined, err |-> ""]
Throw(msg) == [k |-> "throw", s |-> <<>>, v |-> Undefined, err |-> msg]

---------------------------------------------------------------------------
(* rpn.Generate *)

\* exp.replace(/^(\s|,)+/, "")
RECURSIVE StripLead(_)
StripLead(s) == IF s # <<>> /\ IsSpace(s[1]) THEN StripLead(Tail(s)) ELSE s

\* for(var key in OperateTable){ if(exp.indexOf(key) === 0) ... break }: the place
\* in the table of the first key, in property order, that starts s; 0 for none
FirstKey(tab, s) ==
    LET hits == {i \in 1..Len(tab) : StartsWith(s, tab[i].key)}
    IN  IF hits = {} THEN 0 ELSE CHOOSE i \in hits : \A j \in hits : i <= j

\* SignRewrite without the test of the flag
MutSignRewrite(u, k) ==
    IF k = <<"+">> THEN <<"#">>
    ELSE IF k = <<"-">> THEN <<"_">>
    ELSE k

\* if(unary){ if(op === "+"){ op = "#"; } else if(op === "-"){ op = "_"; } }
SignRewrite(u, k) ==
    IF u /\ k = <<"+">> THEN <<"#">>
    ELSE IF u /\ k = <<"-">> THEN <<"_">>
    ELSE k

\* PushDirect without its clause for right to left operators of equal precedence
MutPushDirect(tab, o, stack) ==
    \/ Len(stack) = 0
    \/ Get(tab, o).Order > Get(tab, stack[1]).Order

\* the condition under which the operator o goes straight on the stack
PushDirect(tab, o, stack) ==
    \/ Len(stack) = 0
    \/ Get(tab, o).Order > Get(tab, stack[1]).Order
    \/ /\ Get(tab, o).Order = Get(tab, stack[1]).Order
       /\ Get(tab, o).AssocLow = "R"

\* the while loop that moves operators to Polish: how many are shifted off the
\* stack, counting from the i-th: each is moved, and only then compared with o
RECURSIVE PopCount(_, _, _, _)
PopCount(tab, o, stack, i) ==
    IF i > Len(stack) THEN i - 1
    ELSE IF Get(tab, stack[i]).Order >= Get(tab, o).Order
         THEN PopCount(tab, o, stack, i + 1)
         ELSE i

\* Polish with the keys ks pushed in order
PushAll(P, ks) == P \o [i \in 1..Len(ks) |-> POp(ks[i])]

\* ope_stack[depth] = ope_stack[depth] || []
Ensure(stacks, d) == IF d + 1 > Len(stacks) THEN Append(stacks, <<>>) ELSE stacks

\* GenerateResult without the test of the depth
MutGenerateResult(d, e, P, stacks) ==
    IF Len(e) > 0 THEN [k |-> "null", s |-> <<>>, v |-> Undefined, err |-> ""]
    ELSE [k |-> "string",
          s |-> Join(PushAll(P, IF d >= 0 /\ d + 1 <= Len(stacks) THEN stacks[d + 1] ELSE <<>>)),
          v |-> Undefined, err |-> ""]

\* the statements after the loop: null for an open bracket or unread text,
\* else the rest of the stack is moved to Polish and the joined text returned
GenerateResult(d, e, P, stacks) ==
    IF d > 0 THEN RetNull
    ELSE IF Len(e) > 0 THEN RetNull
    ELSE RetString(Join(PushAll(P, stacks[d + 1])))

\* after a loop pass: the do-while condition, exp.length > 0
AfterPass(e) == IF Len(e) > 0 THEN "Generate" ELSE "GenerateEnd"

\* the local variables of a call of rpn.Generate, and where it stands
GenLocals(e, P, stacks, d, u, g0, k0, o0, at, r) ==
    [exp |-> e, Polish |-> P, ope_stack |-> stacks, depth |-> d, unary |-> u,
     g |-> g0, key |-> k0, op |-> o0, pc |-> at, ret |-> r]

\* rpn.Generate(e) is entered
GenStart(e) == GenLocals(e, <<>>, << <<>> >>, 0, TRUE, <<>>, <<>>, <<>>, "Generate", NoRet)

\* case "(" of the switch
OpenBracket(L, e2) ==
    [L EXCEPT !.exp = e2, !.op = L.key, !.depth = L.depth + 1, !.unary = TRUE,
              !.pc = AfterPass(e2)]

\* case ")" of the switch: the stack of the depth is moved to Polish, then the
\* depth is lowered, and below 0 the call throws
CloseBracket(L, e2) ==
    LET cur == L.ope_stack[L.depth + 1]
        M == [L EXCEPT !.exp = e2, !.op = L.key,
                       !.Polish = PushAll(L.Polish, cur),
                       !.ope_stack[L.depth + 1] = <<>>,
                       !.depth = L.depth - 1]
    IN  IF L.depth - 1 < 0
        THEN [M EXCEPT !.ret = Throw("too much ')'"), !.pc = "done"]
        ELSE [M EXCEPT !.unary = FALSE, !.pc = AfterPass(e2)]

\* the default case of the switch: the sign rewrite, then the operator goes on
\* the stack, directly or after operators are moved from the stack to Polish
Operator(L, e2, tab) ==
    LET cur == L.ope_stack[L.depth + 1]
        o == SignRewrite(L.unary, L.key)
        n == PopCount(tab, o, cur, 1)
    IN  IF PushDirect(tab, o, cur)
        THEN [L EXCEPT !.exp = e2, !.op = o,
                       !.ope_stack[L.depth + 1] = <<o>> \o cur,
                       !.unary = TRUE, !.pc = AfterPass(e2)]
        ELSE [L EXCEPT !.exp = e2, !.op = o,
                       !.Polish = PushAll(L.Polish, Take(cur, n)),
                       !.ope_stack[L.depth + 1] = <<o>> \o Drop(cur, n),
                       !.unary = TRUE, !.pc = AfterPass(e2)]

\* one pass of the do-while loop
GenPassOf(L0, tab) ==
    LET e1 == StripLead(L0.exp)
        L == [L0 EXCEPT !.exp = e1, !.ope_stack = Ensure(L0.ope_stack, L0.depth)]
        m == MatchNumber(e1)
        ki == FirstKey(tab, e1)
    IN  IF Len(e1) = 0 THEN [L0 EXCEPT !.exp = e1, !.pc = "GenerateEnd"]
        ELSE IF m > 0 THEN
            [L EXCEPT !.g = Take(e1, m),
                      !.Polish = Append(L.Polish, PNum(LiteralValue(Take(e1, m)))),
                      !.exp = Drop(e1, m),
                      !.unary = FALSE,
                      !.pc = AfterPass(Drop(e1, m))]
        ELSE IF ki = 0 THEN
            [L EXCEPT !.g = <<>>, !.key = tab[Len(tab)].key, !.op = <<>>,
                      !.ret = Throw("illegal expression"), !.pc = "done"]
        ELSE LET k == tab[ki].key
                 M == [L EXCEPT !.g = <<>>, !.key = k]
             IN  IF k = <<"(">> THEN OpenBracket(M, Drop(e1, Len(k)))
                 ELSE IF k = <<")">> THEN CloseBracket(M, Drop(e1, Len(k)))
                 ELSE Operator(M, Drop(e1, Len(k)), tab)

\* the statements after the loop
GenEndOf(L) ==
    IF L.depth > 0 \/ Len(L.exp) > 0
    THEN [L EXCEPT !.ret = GenerateResult(L.depth, L.exp, L.Polish, L.ope_stack),
                   !.pc = "done"]
    ELSE [L EXCEPT !.ret = GenerateResult(L.depth, L.exp, L.Polish, L.ope_stack),
                   !.Polish = PushAll(L.Polish, L.ope_stack[L.depth + 1]),
                   !.ope_stack[L.depth + 1] = <<>>,
                   !.pc = "done"]

\* rpn.Generate(e) under the table tab, from entry to return or throw
RECURSIVE GenRun(_, _)
GenRun(L, tab) ==
    IF L.pc = "Generate" THEN GenRun(GenPassOf(L, tab), tab)
    ELSE IF L.pc = "GenerateEnd" THEN GenEndOf(L)
    ELSE L

Generate(e, tab) == GenRun(GenStart(e), tab).ret

\* the locals of the call in progress
GenNow == GenLocals(exp, Polish, ope_stack, depth, unary, g, key, op, pc, ret)

GenBecomes(L) ==
    /\ exp' = L.exp
    /\ Polish' = L.Polish
    /\ ope_stack' = L.ope_stack
    /\ depth' = L.depth
    /\ unary' = L.unary
    /\ g' = L.g
    /\ key' = L.key
    /\ op' = L.op
    /\ pc' = L.pc
    /\ ret' = L.ret

GenPass ==
    /\ pc = "Generate"
    /\ GenBecomes(GenPassOf(GenNow, OperateTable))
    /\ UNCHANGED <<OperateTable, call, nested, calcVars>>

GenEnd ==
    /\ pc = "GenerateEnd"
    /\ GenBecomes(GenEndOf(GenNow))
    /\ UNCHANGED <<OperateTable, call, nested, calcVars>>

\* rpn.Generate(e) is entered; with n the caller will pass the result on to rpn
EnterGenerate(e, n) ==
    /\ call' = Call("Generate", StringArg(e), NoArg, NoArg, <<>>)
    /\ nested' = n
    /\ GenBecomes(GenStart(e))
    /\ rpn_stack' = <<>>
    /\ calc_stack' = <<>>
    /\ UNCHANGED OperateTable

---------------------------------------------------------------------------
(* rpn *)

\* rpn_exp.split(/\s+|,/) without its empty pieces, which fnSplitOperator drops
RECURSIVE Chunks(_)
Chunks(s) ==
    LET t == StripLead(s)
        n == IF t = <<>> THEN 0
             ELSE CHOOSE i \in 1..Len(t) :
                    /\ \A j \in 1..i : ~IsSpace(t[j])
                    /\ (i = Len(t) \/ IsSpace(t[i + 1]))
    IN  IF t = <<>> THEN <<>> ELSE <<Take(t, n)>> \o Chunks(Drop(t, n))

\* !isNaN(_val) for a text without operator keys: a decimal literal (digits, with
\* or without a point) or a hexadecimal one
IsNumeric(val) ==
    LET d == DigitRun(val, 1)
        f == DigitRun(val, d + 2)
    IN  \/ /\ Len(val) >= 3
           /\ val[1] = "0"
           /\ val[2] \in {"x", "X"}
           /\ HexRun(val, 3) = Len(val) - 2
        \/ d >= 1 /\ d = Len(val)
        \/ /\ d + f >= 1
           /\ Len(val) = d + 1 + f
           /\ val[d + 1] = "."

Elem(val, type) == [value |-> val, Type |-> type]

\* for(var op in OperateTable){ var piv = _val.indexOf(op); if(piv != -1) ... }: the
\* place in the table of the first key, in property order, that occurs in val
FirstInside(tab, val) ==
    LET hits == {i \in 1..Len(tab) : IndexOf(val, tab[i].key) # 0}
    IN  IF hits = {} THEN 0 ELSE CHOOSE i \in hits : \A j \in hits : i <= j

RECURSIVE fnSplitOperator(_, _)
fnSplitOperator(val, tab) ==
    IF val = <<>> THEN <<>>
    ELSE IF HasKey(tab, val) THEN <<Elem(val, Get(tab, val).Type)>>
    ELSE LET i == FirstInside(tab, val)
         IN  IF i # 0
             THEN LET piv == IndexOf(val, tab[i].key) - 1
                      n == Len(tab[i].key)
                  IN  fnSplitOperator(Take(val, piv), tab)
                        \o fnSplitOperator(SubSeq(val, piv + 1, piv + n), tab)
                        \o fnSplitOperator(Drop(val, piv + n), tab)
             ELSE IF IsNumeric(val) THEN <<Elem(val, "num")>>
             ELSE <<Elem(val, "str")>>

\* the for loop that fills rpn_stack
RECURSIVE SplitAll(_, _)
SplitAll(chunks, tab) ==
    IF chunks = <<>> THEN <<>>
    ELSE fnSplitOperator(Head(chunks), tab) \o SplitAll(Tail(chunks), tab)

Str == [k |-> "str", v |-> 0]

ValueOf(x) == IF x.frac = <<>> THEN Norm(x.n) ELSE Other

\* elem.value.indexOf("0x") != -1 ? parseInt(elem.value,16) : parseFloat(elem.value)
ElemValue(val) ==
    IF IndexOf(val, <<"0", "x">>) # 0 THEN ValueOf(ParseInt16(val)) ELSE ValueOf(ParseFloat(val))

\* the last n values of the stack, in stack order: args after the unshift loop
LastN(stack, n) == SubSeq(stack, Len(stack) - n + 1, Len(stack))

\* the operands are there: the pop loop does not throw
Enough(stack, arity) == Len(stack) >= arity

\* rpnResult with calc_stack.length < 1 for calc_stack.length !== 1
MutrpnResult(rest, stack) ==
    IF Len(rest) > 0 \/ Len(stack) < 1
    THEN [k |-> "null", s |-> <<>>, v |-> Undefined, err |-> ""]
    ELSE [k |-> "value", s |-> <<>>, v |-> stack[1], err |-> ""]

\* the statements after the while loop of rpn
rpnResult(rest, stack) ==
    IF Len(rest) > 0 \/ Len(stack) # 1 THEN RetNull ELSE RetValue(stack[1])

AfterElem(rest) == IF Len(rest) > 0 THEN "rpn" ELSE "rpnEnd"

\* the local variables of a call of rpn, and where it stands
CalcLocals(rest, stack, at, r) ==
    [rpn_stack |-> rest, calc_stack |-> stack, pc |-> at, ret |-> r]

\* rpn(a) is entered: the argument check and the split into rpn_stack
RpnStart(a, tab) ==
    IF a.type # "string" \/ a.s = <<>>
    THEN CalcLocals(<<>>, <<>>, "done", Throw("illegal arg type"))
    ELSE CalcLocals(SplitAll(Chunks(a.s), tab), <<>>,
                    AfterElem(SplitAll(Chunks(a.s), tab)), NoRet)

\* case "op": case "fn": of the switch
Operate(L, elem, rest, tab) ==
    IF ~HasKey(tab, elem.value)
    THEN [L EXCEPT !.rpn_stack = rest, !.ret = Throw("not exist operate"), !.pc = "done"]
    ELSE LET operate == Get(tab, elem.value)
             args == LastN(L.calc_stack, operate.Arity)
             below == Take(L.calc_stack, Len(L.calc_stack) - operate.Arity)
             res == Apply(operate.fn, args)
         IN  IF ~Enough(L.calc_stack, operate.Arity)
             THEN [L EXCEPT !.rpn_stack = rest, !.calc_stack = <<>>,
                            !.ret = Throw("not enough operand"), !.pc = "done"]
             ELSE [L EXCEPT !.rpn_stack = rest,
                            !.calc_stack = IF res.k # "undefined" THEN Append(below, res)
                                           ELSE below,
                            !.pc = AfterElem(rest)]

\* one pass of the while loop of rpn
CalcStepOf(L, tab) ==
    LET elem == Head(L.rpn_stack)
        rest == Tail(L.rpn_stack)
    IN  IF elem.Type = "num"
        THEN [L EXCEPT !.rpn_stack = rest,
                       !.calc_stack = Append(L.calc_stack, ElemValue(elem.value)),
                       !.pc = AfterElem(rest)]
        ELSE IF elem.Type = "str"
        THEN [L EXCEPT !.rpn_stack = rest,
                       !.calc_stack = Append(L.calc_stack, Str),
                       !.pc = AfterElem(rest)]
        ELSE IF elem.Type = "state"
        THEN [L EXCEPT !.rpn_stack = rest, !.pc = AfterElem(rest)]
        ELSE Operate(L, elem, rest, tab)

RpnEndOf(L) == [L EXCEPT !.ret = rpnResult(L.rpn_stack, L.calc_stack), !.pc = "done"]

\* rpn(a) under the table tab, from entry to return or throw
RECURSIVE RpnRun(_, _)
RpnRun(L, tab) ==
    IF L.pc = "rpn" THEN RpnRun(CalcStepOf(L, tab), tab)
    ELSE IF L.pc = "rpnEnd" THEN RpnEndOf(L)
    ELSE L

Rpn(a, tab) == RpnRun(RpnStart(a, tab), tab).ret

CalcNow == CalcLocals(rpn_stack, calc_stack, pc, ret)

CalcBecomes(L) ==
    /\ rpn_stack' = L.rpn_stack
    /\ calc_stack' = L.calc_stack
    /\ pc' = L.pc
    /\ ret' = L.ret

CalcStep ==
    /\ pc = "rpn"
    /\ CalcBecomes(CalcStepOf(CalcNow, OperateTable))
    /\ UNCHANGED <<OperateTable, call, nested, genVars>>

RpnEnd ==
    /\ pc = "rpnEnd"
    /\ CalcBecomes(RpnEndOf(CalcNow))
    /\ UNCHANGED <<OperateTable, call, nested, genVars>>

EnterRpn(a, of) ==
    /\ call' = Call("rpn", a, NoArg, NoArg, of)
    /\ CalcBecomes(RpnStart(a, OperateTable))
    /\ UNCHANGED OperateTable

---------------------------------------------------------------------------
(* rpn.SetOperate *)

\* SetOperateTable that keeps the entry of a key that is already in the table
MutSetOperateTable(tab, name, arity, fn) ==
    IF name.type # "string" \/ name.s = <<>> \/ arity.type # "number" \/ fn.type # "function"
    THEN tab
    ELSE IF HasKey(tab, name.s) THEN tab
    ELSE Put(tab, Entry(name.s, 18, "fn", arity.n, "L", fn.id))

\* the table after rpn.SetOperate(name, arity, fn)
SetOperateTable(tab, name, arity, fn) ==
    IF name.type # "string" \/ name.s = <<>> \/ arity.type # "number" \/ fn.type # "function"
    THEN tab
    ELSE Put(tab, Entry(name.s, 18, "fn", arity.n, "L", fn.id))

EnterSetOperate(name, arity, fn) ==
    /\ call' = Call("SetOperate", name, arity, fn, <<>>)
    /\ OperateTable' = SetOperateTable(OperateTable, name, arity, fn)
    /\ ret' = RetHandle
    /\ pc' = "done"

---------------------------------------------------------------------------
(* The caller *)

NoLocals ==
    /\ exp = <<>>
    /\ Polish = <<>>
    /\ ope_stack = << <<>> >>
    /\ depth = 0
    /\ unary = TRUE
    /\ g = <<>>
    /\ key = <<>>
    /\ op = <<>>
    /\ rpn_stack = <<>>
    /\ calc_stack = <<>>

Init ==
    /\ OperateTable = BuiltinTable
    /\ pc = "idle"
    /\ call = Call("", NoArg, NoArg, NoArg, <<>>)
    /\ nested = FALSE
    /\ ret = NoRet
    /\ NoLocals

\* the caller is between two calls
Free == pc = "idle"

\* the caller takes what the call returned or threw; the locals of the call are gone
Return ==
    /\ pc = "done"
    /\ ~(nested /\ call.f = "Generate" /\ ret.k # "throw")
    /\ pc' = "idle"
    /\ call' = Call("", NoArg, NoArg, NoArg, <<>>)
    /\ nested' = FALSE
    /\ ret' = NoRet
    /\ exp' = <<>>
    /\ Polish' = <<>>
    /\ ope_stack' = << <<>> >>
    /\ depth' = 0
    /\ unary' = TRUE
    /\ g' = <<>>
    /\ key' = <<>>
    /\ op' = <<>>
    /\ rpn_stack' = <<>>
    /\ calc_stack' = <<>>
    /\ UNCHANGED OperateTable

\* rpn.Generate(e)
CallGenerate(S) ==
    /\ Free
    /\ \E e \in S : EnterGenerate(e, FALSE)

\* rpn( rpn.Generate(e) ): the inner call
CallBoth(S) ==
    /\ Free
    /\ \E e \in S : EnterGenerate(e, TRUE)

\* rpn( rpn.Generate(e) ): the outer call, on what Generate returned
CallOuter ==
    /\ pc = "done"
    /\ nested
    /\ call.f = "Generate"
    /\ ret.k # "throw"
    /\ EnterRpn(IF ret.k = "string" THEN StringArg(ret.s) ELSE NullArg, call.a1.s)
    /\ UNCHANGED <<nested, genVars>>

\* rpn(s)
CallRpn(S) ==
    /\ Free
    /\ \E s \in S : EnterRpn(StringArg(s), <<>>)
    /\ nested' = FALSE
    /\ exp' = <<>>
    /\ Polish' = <<>>
    /\ ope_stack' = << <<>> >>
    /\ depth' = 0
    /\ unary' = TRUE
    /\ g' = <<>>
    /\ key' = <<>>
    /\ op' = <<>>

\* rpn.SetOperate(name, arity, fn)
CallSetOperate(Names, Arities, Fns) ==
    /\ Free
    /\ \E name \in Names, arity \in Arities, fn \in Fns : EnterSetOperate(name, arity, fn)
    /\ nested' = FALSE
    /\ exp' = <<>>
    /\ Polish' = <<>>
    /\ ope_stack' = << <<>> >>
    /\ depth' = 0
    /\ unary' = TRUE
    /\ g' = <<>>
    /\ key' = <<>>
    /\ op' = <<>>
    /\ rpn_stack' = <<>>
    /\ calc_stack' = <<>>


---------------------------------------------------------------------------
(* Inputs *)

\* every text over the characters A of length at most n
Texts(A, n) == UNION {[1..k -> A] : k \in 0..n}

MaxLen == 5
GenAlphabet == {"1", "+", "-", "*", "(", ")"}
MaxHexLen == 4
HexAlphabet == {"0", "1", "x", "X", "f", "F"}

\* rpn.Generate on every short text of operators, brackets and digits, and on
\* every short text of the characters of hexadecimal literals
GenInputs == Texts(GenAlphabet, MaxLen) \cup Texts(HexAlphabet, MaxHexLen)

NextGen ==
    \/ CallGenerate(GenInputs)
    \/ GenPass
    \/ GenEnd
    \/ Return

SpecGen == Init /\ [][NextGen]_vars


MaxExprLen == 7
ExprDigits == {"1", "2", "3"}
ExprUnary == {<<"-">>}
ExprBinary == {<<"+">>, <<"-">>, <<"*">>, <<"*", "*">>}

\* the valid infix expressions of n characters: a digit, a sign before an
\* expression, an expression in brackets, two expressions around a binary operator
RECURSIVE ValidExpr(_)
ValidExpr(n) ==
    IF n < 1 THEN {}
    ELSE IF n = 1 THEN {<<d>> : d \in ExprDigits}
    ELSE {u \o x : u \in ExprUnary, x \in ValidExpr(n - 1)}
         \cup {<<"(">> \o x \o <<")">> : x \in ValidExpr(n - 2)}
         \cup UNION {UNION {{x \o b \o y : x \in ValidExpr(i), y \in ValidExpr(n - Len(b) - i)}
                            : i \in 1..(n - Len(b) - 1)}
                     : b \in ExprBinary}

ExprInputs == UNION {ValidExpr(n) : n \in 1..MaxExprLen}

\* rpn( rpn.Generate(e) ) on every valid expression
NextExpr ==
    \/ CallBoth(ExprInputs)
    \/ GenPass
    \/ GenEnd
    \/ CallOuter
    \/ CalcStep
    \/ RpnEnd
    \/ Return

SpecExpr == Init /\ [][NextExpr]_vars


MaxChain == 3
ChainOperands == {<<"2">>, <<"3">>, <<"1", "0">>}
ChainSeparators == {<<"*", "*">>, <<" ", "*", "*", " ">>}

\* the operands ds joined by the separator sep
RECURSIVE ChainText(_, _)
ChainText(ds, sep) ==
    IF Len(ds) = 1 THEN ds[1] ELSE ds[1] \o sep \o ChainText(Tail(ds), sep)

\* the chains a ** b ** ... of 2 to MaxChain number operands
ChainInputs ==
    {ChainText(ds, sep) : ds \in UNION {[1..n -> ChainOperands] : n \in 2..MaxChain},
                          sep \in ChainSeparators}

\* rpn( rpn.Generate(e) ) on every chain
NextChain ==
    \/ CallBoth(ChainInputs)
    \/ GenPass
    \/ GenEnd
    \/ CallOuter
    \/ CalcStep
    \/ RpnEnd
    \/ Return

SpecChain == Init /\ [][NextChain]_vars

MaxPostfixLen == 4
CalcAlphabet == {"1", "2", "+", "~", " ", "f", "("}

\* rpn on every short text, with the function f registered or not; the fn of f
\* returns nothing
NextCalc ==
    \/ CallSetOperate({StringArg(<<"f">>)}, {NumberArg(1)}, {FunctionArg("void")})
    \/ CallRpn(Texts(CalcAlphabet, MaxPostfixLen))
    \/ CalcStep
    \/ RpnEnd
    \/ Return

SpecCalc == Init /\ [][NextCalc]_vars

FnDepth == 1

\* operands of a function: a number, an expression in brackets, or a prefix
\* operator or function applied to such an operand, nested d times at most
RECURSIVE FnOperands(_)
FnOperands(d) ==
    IF d = 0 THEN {<<"1">>, <<"2">>, <<"(", "1", "+", "2", ")">>}
    ELSE FnOperands(d - 1)
         \cup {<<"(">> \o x \o <<")">> : x \in FnOperands(d - 1)}
         \cup {<<"-">> \o x : x \in FnOperands(d - 1)}
         \cup {<<"~">> \o x : x \in FnOperands(d - 1)}
         \cup {<<"f", " ">> \o x : x \in FnOperands(d - 1)}
         \cup {<<"f", "(">> \o x \o <<")">> : x \in FnOperands(d - 1)}

\* f applied to an operand, in call form and in prefix form
CallForm(x) == <<"f", "(">> \o x \o <<")">>
PrefixForm(x) == <<"f", " ">> \o x

ApiInputs ==
    {CallForm(x) : x \in FnOperands(FnDepth)}
        \cup {PrefixForm(x) : x \in FnOperands(FnDepth)}
        \cup {<<"1", "+", "=", "2">>, <<"1", "+", "2">>, <<"2", "*", "*", "3">>}

ApiPostfix == {<<"1", " ", "f">>, <<"1", " ", "2", " ", "+", "=">>, <<"2", " ", "~">>}

ApiNames == {StringArg(<<"f">>), StringArg(<<"+", "=">>), StringArg(<<"~">>),
             StringArg(<<>>), NumberArg(1)}
ApiArities == {NumberArg(1), NumberArg(2), StringArg(<<"1">>)}
ApiFns == {FunctionArg("inc"), FunctionArg("dbl"), NoArg}

\* the public functions in any order: registrations, rpn(rpn.Generate(e)), rpn(s)
Next ==
    \/ CallSetOperate(ApiNames, ApiArities, ApiFns)
    \/ CallBoth(ApiInputs)
    \/ CallRpn(ApiPostfix)
    \/ GenPass
    \/ GenEnd
    \/ CallOuter
    \/ CalcStep
    \/ RpnEnd
    \/ Return

Spec == Init /\ [][Next]_vars

---------------------------------------------------------------------------
(* A reference infix evaluation by the documented table of precedence and    *)
(* associativity: the prefix operators bind tightest, then ** (right to      *)
(* left), then * / %, then + -, << >>, &, ^, | (left to right).              *)

RefTok(t, n, s) == [t |-> t, n |-> n, s |-> s]

RECURSIVE RefLex(_)
RefLex(s) ==
    IF s = <<>> THEN <<>>
    ELSE IF IsSpace(s[1]) THEN RefLex(Tail(s))
    ELSE IF IsDigit(s[1])
         THEN <<RefTok("num", DecVal(Take(s, DigitRun(s, 1))), <<>>)>> \o RefLex(Drop(s, DigitRun(s, 1)))
    ELSE IF s[1] = "(" THEN <<RefTok("open", 0, <<>>)>> \o RefLex(Tail(s))
    ELSE IF s[1] = ")" THEN <<RefTok("close", 0, <<>>)>> \o RefLex(Tail(s))
    ELSE IF Len(s) >= 2 /\ s[1] \in {"*", "<", ">"} /\ s[2] = s[1]
         THEN <<RefTok("op", 0, Take(s, 2))>> \o RefLex(Drop(s, 2))
    ELSE <<RefTok("op", 0, Take(s, 1))>> \o RefLex(Tail(s))

RefPrec(o) ==
    CASE o = <<"*", "*">> -> 15
      [] o \in {<<"*">>, <<"/">>, <<"%">>} -> 14
      [] o \in {<<"+">>, <<"-">>} -> 13
      [] o \in {<<"<", "<">>, <<">", ">">>} -> 12
      [] o = <<"&">> -> 9
      [] o = <<"^">> -> 8
      [] OTHER -> 7

RefBinary(o, l, r) ==
    CASE o = <<"*", "*">> -> Apply("pow", <<l, r>>)
      [] o = <<"*">> -> Apply("mul", <<l, r>>)
      [] o = <<"/">> -> Apply("div", <<l, r>>)
      [] o = <<"%">> -> Apply("mod", <<l, r>>)
      [] o = <<"+">> -> Apply("add", <<l, r>>)
      [] o = <<"-">> -> Apply("sub", <<l, r>>)
      [] o = <<"<", "<">> -> Apply("shl", <<l, r>>)
      [] o = <<">", ">">> -> Apply("shr", <<l, r>>)
      [] o = <<"&">> -> Apply("and", <<l, r>>)
      [] o = <<"^">> -> Apply("xor", <<l, r>>)
      [] OTHER -> Apply("or", <<l, r>>)

RefUnary(o, x) ==
    CASE o = <<"-">> -> Apply("neg", <<x>>)
      [] o = <<"~">> -> Apply("not", <<x>>)
      [] OTHER -> Apply("pos", <<x>>)

RECURSIVE RefPrimary(_, _), RefExpr(_, _, _), RefLoop(_, _, _, _)
RefPrimary(ts, i) ==
    IF ts[i].t = "num" THEN [v |-> Int_(ts[i].n), i |-> i + 1]
    ELSE IF ts[i].t = "open"
         THEN LET r == RefExpr(ts, i + 1, 0) IN [v |-> r.v, i |-> r.i + 1]
    ELSE LET r == RefPrimary(ts, i + 1) IN [v |-> RefUnary(ts[i].s, r.v), i |-> r.i]

RefLoop(ts, lhs, i, minPrec) ==
    IF i > Len(ts) \/ ts[i].t # "op" THEN [v |-> lhs, i |-> i]
    ELSE IF RefPrec(ts[i].s) < minPrec THEN [v |-> lhs, i |-> i]
    ELSE LET p == RefPrec(ts[i].s)
             r == RefExpr(ts, i + 1, IF p = 15 THEN p ELSE p + 1)
         IN  RefLoop(ts, RefBinary(ts[i].s, lhs, r.v), r.i, minPrec)

RefExpr(ts, i, minPrec) ==
    LET l == RefPrimary(ts, i) IN RefLoop(ts, l.v, l.i, minPrec)

RefEval(s) == RefExpr(RefLex(s), 1, 0).v

---------------------------------------------------------------------------
(* Steps of rpn.Generate *)

\* the operator stack of the current depth
CurStack == IF depth + 1 <= Len(ope_stack) THEN ope_stack[depth + 1] ELSE <<>>

\* this step is a loop pass that read an operator or a bracket
ScanStep ==
    /\ pc = "Generate"
    /\ g' = <<>>
    /\ Len(exp') < Len(StripLead(exp))

\* this step is a loop pass that read a number
NumberStep ==
    /\ pc = "Generate"
    /\ g' # <<>>
    /\ Len(exp') < Len(StripLead(exp))

\* the keys this step appended to Polish
Moved == [i \in 1..(Len(Polish') - Len(Polish)) |-> Polish'[Len(Polish) + i].key]

\* the number of operators on top of stack whose precedence is that of o or more
RECURSIVE TopRun(_, _, _)
TopRun(tab, o, stack) ==
    IF stack # <<>> /\ Get(tab, stack[1]).Order >= Get(tab, o).Order
    THEN 1 + TopRun(tab, o, Tail(stack))
    ELSE 0

---------------------------------------------------------------------------
(* C1: for every valid infix expression e of number literals, brackets and   *)
(* built-in operators, evaluating the postfix text that Generate(e) returns  *)
(* gives the value of e under the documented precedences and associativity.  *)
C1_RoundTrip ==
    (pc = "done" /\ call.f = "rpn" /\ call.of # <<>>)
        => (ret.k = "value" /\ ret.v = RefEval(call.of))

(* C9: when an incoming operator that is not a bracket is not pushed         *)
(* directly, the operators moved to the output are exactly the topmost run   *)
(* of operators of its precedence or more; an operator of lower precedence   *)
(* is not moved and stays on the stack under the pushed operator.            *)
C9_PopRun ==
    [][(/\ ScanStep
        /\ key' \notin {<<"(">>, <<")">>}
        /\ CurStack # <<>>
        /\ Get(OperateTable, op').Order <= Get(OperateTable, CurStack[1]).Order
        /\ ~(/\ Get(OperateTable, op').Order = Get(OperateTable, CurStack[1]).Order
             /\ Get(OperateTable, op').AssocLow = "R"))
       => LET n == TopRun(OperateTable, op', CurStack)
          IN  /\ Moved = Take(CurStack, n)
              /\ ope_stack'[depth + 1] = <<op'>> \o Drop(CurStack, n)]_vars


---------------------------------------------------------------------------
(* Chains of ** *)

\* s is a chain: number literals joined by **, two of them at least
IsChain(s) ==
    LET ts == RefLex(s)
    IN  /\ Len(ts) >= 3
        /\ Len(ts) % 2 = 1
        /\ \A i \in 1..Len(ts) :
              IF i % 2 = 1 THEN ts[i].t = "num"
              ELSE ts[i].t = "op" /\ ts[i].s = <<"*", "*">>

\* the values of the number literals of s, in order
ChainNums(s) ==
    LET ts == RefLex(s) IN [i \in 1..((Len(ts) + 1) \div 2) |-> ts[2 * i - 1].n]

\* the operands ns in order, then one ** for each operand but the first
RECURSIVE ChainPostfix(_, _)
ChainPostfix(ns, i) ==
    IF i <= Len(ns)
    THEN (IF i = 1 THEN <<>> ELSE <<" ">>) \o NatToString(ns[i]) \o ChainPostfix(ns, i + 1)
    ELSE IF i < 2 * Len(ns) THEN <<" ", "*", "*">> \o ChainPostfix(ns, i + 1)
    ELSE <<>>

\* ns[1] ** (ns[2] ** (... ** ns[n]))
RECURSIVE RightFold(_)
RightFold(ns) ==
    IF Len(ns) = 1 THEN Int_(ns[1])
    ELSE Apply("pow", <<Int_(ns[1]), RightFold(Tail(ns))>>)

(* C2: for a chain of n >= 2 number operands joined by **, without brackets, *)
(* Generate returns the operands in their order followed by n-1 tokens **,   *)
(* and the evaluation groups the chain from right to left.                   *)
C2_RightAssoc ==
    /\ (pc = "done" /\ call.f = "Generate" /\ IsChain(call.a1.s))
          => ret = RetString(ChainPostfix(ChainNums(call.a1.s), 1))
    /\ (pc = "done" /\ call.f = "rpn" /\ IsChain(call.of))
          => ret = RetValue(RightFold(ChainNums(call.of)))

\* 2**3**2 was evaluated to 2**(3**2) = 512, not (2**3)**2 = 64
C2_Witness ==
    /\ pc = "done"
    /\ call.f = "rpn"
    /\ call.of = <<"2", "*", "*", "3", "*", "*", "2">>
    /\ call.a1.s = <<"2", " ", "3", " ", "2", " ", "*", "*", " ", "*", "*">>
    /\ ret = RetValue(Int_(512))

---------------------------------------------------------------------------
(* Brackets *)

\* the open brackets less the close brackets among the first i characters of s
RECURSIVE Balance(_, _)
Balance(s, i) ==
    IF i = 0 THEN 0
    ELSE Balance(s, i - 1) + (IF s[i] = "(" THEN 1 ELSE IF s[i] = ")" THEN -1 ELSE 0)

\* the place of the first ) of s with no unmatched ( before it, 0 when there is none
FirstUnmatchedClose(s) ==
    LET bad == {i \in 1..Len(s) : Balance(s, i) < 0}
    IN  IF bad = {} THEN 0 ELSE CHOOSE i \in bad : \A j \in bad : i <= j

(* C3: Generate returns a postfix text only for an input with balanced       *)
(* brackets: a ) with no unmatched ( before it makes the call throw when     *)
(* that ) is read, and an input that ends with a ( still open gives no text. *)
C3_Brackets ==
    (pc = "done" /\ call.f = "Generate")
        => LET e == call.a1.s
               u == FirstUnmatchedClose(e)
               read == Len(e) - Len(exp)
           IN  /\ ret.k = "string" => (u = 0 /\ Balance(e, Len(e)) = 0)
               /\ u # 0 => /\ ret.k = "throw"
                           /\ IF ret.err = "too much ')'" THEN read = u ELSE read < u
               /\ (u = 0 /\ Balance(e, Len(e)) > 0)
                     => (ret.k = "null" \/ (ret.k = "throw" /\ ret.err = "illegal expression"))

\* an input ended inside a bracket: the output built so far is not returned
C3_Witness ==
    /\ pc = "done"
    /\ call.f = "Generate"
    /\ ret.k = "null"
    /\ depth > 0
    /\ Len(Polish) >= 2

---------------------------------------------------------------------------
(* The sign flag *)

\* what the loop passes read last: nothing yet, a number, a bracket, an operator
PrevToken ==
    IF g # <<>> THEN "number"
    ELSE IF key = <<>> THEN "none"
    ELSE IF key = <<"(">> THEN "open"
    ELSE IF key = <<")">> THEN "close"
    ELSE "operator"

InGenerate == pc \in {"Generate", "GenerateEnd"}

(* C8: a raw + or - is emitted as # or _ exactly when the flag unary is true, *)
(* that is when it is the first token or follows an open bracket or an       *)
(* operator, and as + or - exactly after a number or a close bracket; the    *)
(* flag is true at first, false after a number and after ), true after ( and *)
(* after every operator that is not a bracket.                               *)
C8_Sign ==
    [][/\ (pc = "idle" /\ pc' = "Generate") => unary'
       /\ NumberStep => ~unary'
       /\ (ScanStep /\ key' = <<"(">>) => unary'
       /\ (ScanStep /\ key' = <<")">> /\ pc' # "done") => ~unary'
       /\ (ScanStep /\ key' \notin {<<"(">>, <<")">>}) => unary'
       /\ (ScanStep /\ key' \in {<<"+">>, <<"-">>})
             => /\ unary <=> PrevToken \in {"none", "open", "operator"}
                /\ ~unary <=> PrevToken \in {"number", "close"}
                /\ unary => op' = (IF key' = <<"+">> THEN <<"#">> ELSE <<"_">>)
                /\ ~unary => op' = key'
                /\ ope_stack'[depth + 1][1] = op']_vars

\* 1-(- was read: the first - is on the stack as -, the second as _
C8_Witness ==
    /\ pc = "Generate"
    /\ key = <<"-">>
    /\ op = <<"_">>
    /\ depth = 1
    /\ ope_stack = << <<<<"-">>>>, <<<<"_">>>> >>
    /\ Len(Polish) = 1

---------------------------------------------------------------------------
(* Hexadecimal literals *)

IsHexLiteral(t) ==
    /\ Len(t) >= 3
    /\ t[1] = "0"
    /\ t[2] \in {"x", "X"}
    /\ \A i \in 3..Len(t) : IsHexDigit(t[i])

(* C10: a hexadecimal literal read by Generate, with the prefix and the      *)
(* digits in either letter case, is emitted as the number it denotes in base *)
(* 16, and the postfix text shows it in decimal.                             *)
C10_Hex ==
    /\ (InGenerate /\ IsHexLiteral(g))
          => Polish[Len(Polish)] = PNum(Num(HexDigitsVal(Drop(g, 2)), <<>>))
    /\ (pc = "done" /\ call.f = "Generate" /\ IsHexLiteral(call.a1.s))
          => ret = RetString(NatToString(HexDigitsVal(Drop(call.a1.s, 2))))

---------------------------------------------------------------------------
(* The evaluator *)

\* the fn of the entry returns a value
Produces(tab, name) == Get(tab, name).fn \notin {"nop", "void"}

\* the number of values after the tokens toks are evaluated from h values;
\* -1 when an operator is reached with fewer values than its arity
RECURSIVE Height(_, _, _)
Height(toks, h, tab) ==
    IF toks = <<>> THEN h
    ELSE IF toks[1].Type \in {"num", "str"} THEN Height(Tail(toks), h + 1, tab)
    ELSE IF toks[1].Type = "state" THEN Height(Tail(toks), h, tab)
    ELSE IF h < Get(tab, toks[1].value).Arity THEN -1
    ELSE Height(Tail(toks), (h - Get(tab, toks[1].value).Arity)
                              + (IF Produces(tab, toks[1].value) THEN 1 ELSE 0), tab)

\* the place among toks of the first operator reached with too few values
UnderflowAt(toks, tab) ==
    CHOOSE i \in 1..Len(toks) :
        /\ Height(Take(toks, i), 0, tab) = -1
        /\ Height(Take(toks, i - 1), 0, tab) # -1

(* C4: for a postfix text that is not empty, rpn returns a value exactly     *)
(* when no operator was reached with fewer values than its arity and one     *)
(* value is left at the end; an operator with too few values throws at that  *)
(* token, and any other number of values left gives no result.               *)
C4_Result ==
    (pc = "done" /\ call.f = "rpn" /\ call.a1.type = "string" /\ call.a1.s # <<>>)
        => LET toks == SplitAll(Chunks(call.a1.s), OperateTable)
               h == Height(toks, 0, OperateTable)
           IN  /\ ret.k = "value" <=> h = 1
               /\ h = -1 => /\ ret = Throw("not enough operand")
                            /\ Len(toks) - Len(rpn_stack) = UnderflowAt(toks, OperateTable)
               /\ h \notin {-1, 1} => ret.k = "null"

\* two values were left: no result
C4_Witness ==
    /\ pc = "done"
    /\ call.f = "rpn"
    /\ ret.k = "null"
    /\ Len(calc_stack) = 2

---------------------------------------------------------------------------
(* The registry *)

ValidRegistration(c) ==
    /\ c.a1.type = "string"
    /\ c.a1.s # <<>>
    /\ c.a2.type = "number"
    /\ c.a3.type = "function"

(* C5: a valid registration writes the entry of its token (precedence 18,    *)
(* the given arity, left to right, kind function, the given implementation)  *)
(* and leaves every other entry as it was; Generate, rpn and a registration  *)
(* with invalid arguments leave the table unchanged; no entry is removed;    *)
(* every registration returns the engine handle.                             *)
C5_Registry ==
    [][IF pc = "idle" /\ call'.f = "SetOperate"
       THEN /\ ret' = RetHandle
            /\ IF ValidRegistration(call')
               THEN /\ HasKey(OperateTable', call'.a1.s)
                    /\ Get(OperateTable', call'.a1.s)
                         = [key |-> call'.a1.s, Order |-> 18, Type |-> "fn",
                            Arity |-> call'.a2.n, AssocLow |-> "L", fn |-> call'.a3.id]
                    /\ \A i \in 1..Len(OperateTable) :
                          /\ OperateTable'[i].key = OperateTable[i].key
                          /\ OperateTable[i].key # call'.a1.s
                                => OperateTable'[i] = OperateTable[i]
                    /\ Len(OperateTable') = Len(OperateTable)
                                            + (IF HasKey(OperateTable, call'.a1.s) THEN 0 ELSE 1)
               ELSE OperateTable' = OperateTable
       ELSE OperateTable' = OperateTable]_vars

\* a second registration of f replaced the first, beside another user token
C5_Witness ==
    /\ pc = "done"
    /\ call.f = "SetOperate"
    /\ call.a1.s = <<"f">>
    /\ Len(OperateTable) = 18
    /\ OperateTable[17] = Entry(<<"f">>, 18, "fn", 2, "L", "dbl")
    /\ OperateTable[18].key = <<"+", "=">>

(* C6: whatever was registered, when the rest of the input does not start    *)
(* with a number the tokenizer of Generate consumes the longest registered   *)
(* token that starts it.                                                     *)
C6_Longest ==
    [][ScanStep
        => \A i \in 1..Len(OperateTable) :
              StartsWith(StripLead(exp), OperateTable[i].key)
                 => Len(OperateTable[i].key) <= Len(key')]_vars

(* C7: for a registered function f of arity 1 and an operand X (a number, an *)
(* expression in brackets, or a prefix operator or function applied to such  *)
(* an operand), Generate of f(X) and of f X returns the postfix of X         *)
(* followed by f, and its evaluation applies f to the value of X.            *)
C7_FunctionAfterOperand ==
    \A x \in FnOperands(FnDepth) :
        (/\ pc = "done"
         /\ HasKey(OperateTable, <<"f">>)
         /\ Get(OperateTable, <<"f">>).Arity = 1
         /\ (IF call.f = "Generate" THEN call.a1.s ELSE call.of) \in {CallForm(x), PrefixForm(x)}
         /\ Generate(x, OperateTable).k = "string")
        => LET P == Generate(x, OperateTable).s
               V == Rpn(StringArg(P), OperateTable)
           IN  /\ call.f = "Generate" => ret = RetString(P \o <<" ", "f">>)
               /\ (call.f = "rpn" /\ V.k = "value")
                     => ret = RetValue(Apply(Get(OperateTable, <<"f">>).fn, <<V.v>>))

=============================================================================
